---- MODULE Spec2Model ----
(***************************************************************************)
(* Model of robot-bundler's kit version codec (src/kit_version.rs) and of  *)
(* the bundle information schema (src/schema.rs).                          *)
(*                                                                         *)
(* A string is a sequence of characters; a character is a one-character    *)
(* TLA+ string, except the non-ASCII ones, which are named by code point.  *)
(* Option<T> is a sequence of length at most one: None is <<>>, Some(x) is *)
(* <<x>>.                                                                  *)
(***************************************************************************)
EXTENDS Integers, Sequences, FiniteSets, TLC

VARIABLES
    val,        \* the string handed to KitVersion::try_from
    origin,     \* "parse": the value comes from try_from; "direct": built field by field
    res,        \* Option<Result<KitVersion, &str>>: what try_from(val) returned
    v,          \* Option<KitVersion>: the value in hand
    text,       \* Option<String>: format!("{}", v)
    res2,       \* Option<Result>: try_from(text)
    text2,      \* Option<String>: format!("{}", res2's value)
    file,       \* Option<contents>: the file load() reads; None when it cannot be read
    info,       \* Option<Result<BundleInformationSchema, error>>: what load() returned
    out,        \* Option<contents>: info.to_string()
    info2       \* Option<Result>: toml::from_str(&out)

vars == <<val, origin, res, v, text, res2, text2, file, info, out, info2>>

None == <<>>
Some(x) == <<x>>

(***************************************************************************)
(* Characters and the character classes of the regex crate and of std.     *)
(***************************************************************************)
AsciiDigit == {"0", "1", "2", "3", "4", "5", "6", "7", "8", "9"}

\* A decimal digit outside ASCII: ARABIC-INDIC DIGIT THREE, general category Nd.
UnicodeDigit == {"U+0663"}

\* \d of the regex crate is Unicode aware: \p{Nd}.
ReDigit == AsciiDigit \cup UnicodeDigit

\* [0-9a-f]
ReHex == AsciiDigit \cup {"a", "b", "c", "d", "e", "f"}

\* The letters of the model's alphabet.
Letter == {"a", "b", "c", "d", "e", "f", "m", "r", "s", "t", "v", "A", "D", "F"}

\* \w of the regex crate: Unicode letters, digits, marks and connector punctuation.
ReWord == Letter \cup ReDigit \cup {"_"}

DigitVal(c) ==
    CASE c = "0" -> 0 [] c = "1" -> 1 [] c = "2" -> 2 [] c = "3" -> 3 [] c = "4" -> 4
      [] c = "5" -> 5 [] c = "6" -> 6 [] c = "7" -> 7 [] c = "8" -> 8 [] c = "9" -> 9

DigitChar(d) == <<"0", "1", "2", "3", "4", "5", "6", "7", "8", "9">>[d + 1]

U16Max == 65535
U8Max == 255

\* The commit's repetition {5,40} in RE.
MinCommitLen == 5
MaxCommitLen == 40

(***************************************************************************)
(* Display for the unsigned integers: decimal, no sign, no leading zero.   *)
(***************************************************************************)
RECURSIVE Dec(_)
Dec(n) == IF n < 10 THEN <<DigitChar(n)>> ELSE Dec(n \div 10) \o <<DigitChar(n % 10)>>

(***************************************************************************)
(* str::parse::<u16>() and str::parse::<u8>(): every character must be an  *)
(* ASCII digit, and the accumulation is checked at every step.             *)
(* The result is None on any error.                                        *)
(***************************************************************************)
RECURSIVE ParseAcc(_, _, _, _)
ParseAcc(s, i, acc, max) ==
    IF i > Len(s) THEN Some(acc)
    ELSE IF s[i] \notin AsciiDigit THEN None
    ELSE IF acc * 10 + DigitVal(s[i]) > max THEN None
    ELSE ParseAcc(s, i + 1, acc * 10 + DigitVal(s[i]), max)

ParseUnsigned(s, max) == IF Len(s) = 0 THEN None ELSE ParseAcc(s, 1, 0, max)

\* Mutants: the epoch parsed as a u8; a number parsed wide and cast down to u8.
parse_u16_Mut(s) == ParseUnsigned(s, U8Max)
parse_u8_Mut(s) ==
    IF ParseUnsigned(s, U16Max) = None THEN None
    ELSE Some(ParseUnsigned(s, U16Max)[1] % (U8Max + 1))

parse_u16(s) == ParseUnsigned(s, U16Max)
parse_u8(s) == ParseUnsigned(s, U8Max)

(***************************************************************************)
(* RE: ^(\d+)\.(\d+)\.(\d+)\.(\d+)(dev)?(?::([0-9a-f]{5,40})(?:@(\w+))?)?$ *)
(* No class of a repetition holds the character that may follow it, so    *)
(* the leftmost-first match is the greedy left-to-right scan.              *)
(***************************************************************************)
\* The end of the longest run of characters of class C that starts at s[i].
RECURSIVE RunEnd(_, _, _)
RunEnd(s, i, C) == IF i <= Len(s) /\ s[i] \in C THEN RunEnd(s, i + 1, C) ELSE i

At(s, i, c) == i <= Len(s) /\ s[i] = c

Lit(s, i, lit) == i + Len(lit) - 1 <= Len(s) /\ SubSeq(s, i, i + Len(lit) - 1) = lit

Min(a, b) == IF a < b THEN a ELSE b

\* Mutant: the repetition {5,} with no upper limit.
CommitEnd_Mut(s, c0) == RunEnd(s, c0, ReHex)

\* [0-9a-f]{5,40} from s[c0]: the end of the greedy repetition, at most 40 long.
CommitEnd(s, c0) == Min(RunEnd(s, c0, ReHex), c0 + MaxCommitLen)

\* RE.captures(s): None, or Some of the seven groups (group 5, 6, 7 optional).
RE_captures(s) ==
    LET n == Len(s)
        b1 == RunEnd(s, 1, ReDigit)
        ok1 == b1 > 1 /\ At(s, b1, ".")
        b2 == RunEnd(s, b1 + 1, ReDigit)
        ok2 == ok1 /\ b2 > b1 + 1 /\ At(s, b2, ".")
        b3 == RunEnd(s, b2 + 1, ReDigit)
        ok3 == ok2 /\ b3 > b2 + 1 /\ At(s, b3, ".")
        b4 == RunEnd(s, b3 + 1, ReDigit)
        ok4 == ok3 /\ b4 > b3 + 1
        hasDev == Lit(s, b4, <<"d", "e", "v">>)
        p5 == IF hasDev THEN b4 + 3 ELSE b4
        hasBuild == At(s, p5, ":")
        c0 == p5 + 1
        c1 == CommitEnd(s, c0)
        okCommit == c1 - c0 >= MinCommitLen
        hasBranch == At(s, c1, "@")
        w1 == RunEnd(s, c1 + 1, ReWord)
        okBranch == w1 > c1 + 1 /\ w1 = n + 1
        groups(commit, branch) ==
            [g1 |-> SubSeq(s, 1, b1 - 1),
             g2 |-> SubSeq(s, b1 + 1, b2 - 1),
             g3 |-> SubSeq(s, b2 + 1, b3 - 1),
             g4 |-> SubSeq(s, b3 + 1, b4 - 1),
             g5 |-> IF hasDev THEN Some(<<"d", "e", "v">>) ELSE None,
             g6 |-> commit,
             g7 |-> branch]
    IN  IF ~ok4 THEN None
        ELSE IF p5 = n + 1 THEN Some(groups(None, None))
        ELSE IF ~hasBuild THEN None
        ELSE IF ~okCommit THEN None
        ELSE IF c1 = n + 1 THEN Some(groups(Some(SubSeq(s, c0, c1 - 1)), None))
        ELSE IF ~hasBranch THEN None
        ELSE IF ~okBranch THEN None
        ELSE Some(groups(Some(SubSeq(s, c0, c1 - 1)), Some(SubSeq(s, c1 + 1, n))))

(***************************************************************************)
(* KitVersion::try_from                                                    *)
(***************************************************************************)
Ok(x) == [ok |-> TRUE, value |-> Some(x), err |-> ""]
Err(e) == [ok |-> FALSE, value |-> None, err |-> e]

ErrFormat == "version was not in valid format."
ErrEpoch == "Unable to parse version epoch"
ErrMajor == "Unable to parse version major value"
ErrMinor == "Unable to parse version minor value"
ErrPatch == "Unable to parse version patch value"

\* Mutant: the last arm drops the branch.
build_info_of_Mut(commit, branch) ==
    IF commit = None THEN None
    ELSE Some([commit |-> commit[1], branch |-> None])

\* match (commit, branch) { ... }
build_info_of(commit, branch) ==
    IF commit = None /\ branch = None THEN None
    ELSE IF commit = None THEN None
    ELSE IF branch = None THEN Some([commit |-> commit[1], branch |-> None])
    ELSE Some([commit |-> commit[1], branch |-> Some(branch[1])])

try_from(s) ==
    LET captures == RE_captures(s) IN
    IF captures = None THEN Err(ErrFormat)
    ELSE
        LET c == captures[1]
            epoch == parse_u16(c.g1)
            major == parse_u8(c.g2)
            minor == parse_u8(c.g3)
            patch == parse_u8(c.g4)
        IN  IF epoch = None THEN Err(ErrEpoch)
            ELSE IF major = None THEN Err(ErrMajor)
            ELSE IF minor = None THEN Err(ErrMinor)
            ELSE IF patch = None THEN Err(ErrPatch)
            ELSE Ok([epoch |-> epoch[1],
                     major |-> major[1],
                     minor |-> minor[1],
                     patch |-> patch[1],
                     dev |-> c.g5 # None,
                     build_info |-> build_info_of(c.g6, c.g7)])

(***************************************************************************)
(* Display for BuildInfo and for KitVersion                                *)
(***************************************************************************)
\* Mutant: the branch is not written.
BuildInfo_fmt_Mut(b) == b.commit

BuildInfo_fmt(b) ==
    IF b.branch = None THEN b.commit
    ELSE b.commit \o <<"@">> \o b.branch[1]

\* Mutant: the arm for dev with build_info uses the format string without dev.
KitVersion_fmt_Mut(k) ==
    LET nums == Dec(k.epoch) \o <<".">> \o Dec(k.major) \o <<".">>
                \o Dec(k.minor) \o <<".">> \o Dec(k.patch)
    IN  IF k.dev
        THEN IF k.build_info # None
             THEN nums \o <<":">> \o BuildInfo_fmt(k.build_info[1])
             ELSE nums \o <<"d", "e", "v">>
        ELSE IF k.build_info # None
             THEN nums \o <<":">> \o BuildInfo_fmt(k.build_info[1])
             ELSE nums

KitVersion_fmt(k) ==
    LET nums == Dec(k.epoch) \o <<".">> \o Dec(k.major) \o <<".">>
                \o Dec(k.minor) \o <<".">> \o Dec(k.patch)
    IN  IF k.dev
        THEN IF k.build_info # None
             THEN nums \o <<"d", "e", "v", ":">> \o BuildInfo_fmt(k.build_info[1])
             ELSE nums \o <<"d", "e", "v">>
        ELSE IF k.build_info # None
             THEN nums \o <<":">> \o BuildInfo_fmt(k.build_info[1])
             ELSE nums

(***************************************************************************)
(* The inputs.  A well-formed input is built from its parts; an edited     *)
(* input is a well-formed one with one character inserted, replaced or     *)
(* deleted anywhere, which yields the malformed strings: a missing         *)
(* component, leading or trailing garbage, a misspelt dev, a commit one    *)
(* character too short or too long, an upper-case commit, a non-ASCII      *)
(* digit.                                                                  *)
(***************************************************************************)
\* The most zeros written in front of a numeric component.
MaxZeros == 1

Zeros(k) == [i \in 1..k |-> "0"]

NumStr(n, z) == Zeros(z) \o Dec(n)

Dev == <<"d", "e", "v">>

Commit5 == <<"a", "1", "b", "2", "f">>
Commit6 == <<"1", "2", "3", "4", "5", "6">>
Commit40 == [i \in 1..MaxCommitLen |-> IF i % 2 = 1 THEN "c" ELSE "0"]

Master == <<"m", "a", "s", "t", "e", "r">>

Commits == {Commit5, Commit6, Commit40}
Branches == {Master, <<"_", "U+0663">>}

\* "", ":<commit>" and ":<commit>@<branch>"
BuildStrs(commits, branches) ==
    {<<>>} \cup {<<":">> \o c : c \in commits}
           \cup {<<":">> \o c \o <<"@">> \o b : c \in commits, b \in branches}

Join(e, ma, mi, p, d, b) == e \o <<".">> \o ma \o <<".">> \o mi \o <<".">> \o p \o d \o b

\* "2021.0.0.1:123456@master"
MasterExample ==
    Join(<<"2", "0", "2", "1">>, <<"0">>, <<"0">>, <<"1">>, <<>>,
         <<":">> \o Commit6 \o <<"@">> \o Master)

\* Canonical numbers, in and out of range, with every shape of suffix.
Plain ==
    {Join(Dec(e), Dec(ma), Dec(mi), Dec(p), d, b) :
        e \in {0, 2021, 65535, 65536}, ma \in {0, 255, 256}, mi \in {0, 300},
        p \in {1, 256}, d \in {<<>>, Dev}, b \in BuildStrs(Commits, Branches)}

\* Numbers written with up to MaxZeros zeros in front.
Padded ==
    {Join(NumStr(e, z[1]), NumStr(ma, z[2]), NumStr(0, z[3]), NumStr(1, z[4]), d, b) :
        e \in {0, 2021, 65536}, ma \in {0, 255, 256}, z \in [1..4 -> 0..MaxZeros],
        d \in {<<>>, Dev}, b \in BuildStrs({Commit6}, {Master})}

WellFormed == Plain \cup Padded

\* The well-formed inputs that are edited.
Seeds ==
    {Join(Dec(e), Dec(ma), <<"0">>, Dec(p), d, b) :
        e \in {2021, 65536}, ma \in {0}, p \in {1}, d \in {<<>>, Dev},
        b \in BuildStrs({Commit5, Commit40}, {<<"m">>})}

\* The characters an edit writes: one or two of every class RE tells apart.
EditChars == {"0", "U+0663", "a", "m", "A", "_", ".", ":", "@", " ", "\n"}

Insert(s, i, c) == SubSeq(s, 1, i - 1) \o <<c>> \o SubSeq(s, i, Len(s))
Replace(s, i, c) == [s EXCEPT ![i] = c]
Delete(s, i) == SubSeq(s, 1, i - 1) \o SubSeq(s, i + 1, Len(s))

Edited ==
    UNION {
        {Insert(s, i, c) : i \in 1..(Len(s) + 1), c \in EditChars}
        \cup {Replace(s, i, c) : i \in 1..Len(s), c \in EditChars}
        \cup {Delete(s, i) : i \in 1..Len(s)} : s \in Seeds}

Inputs == WellFormed \cup Edited \cup {<<>>}

\* KitVersion values built field by field, build_info of any content.
DirectValues ==
    [epoch : {0, 2021, U16Max}, major : {0, U8Max}, minor : {4}, patch : {0, 10},
     dev : BOOLEAN,
     build_info : {None,
                   Some([commit |-> Commit6, branch |-> None]),
                   Some([commit |-> Commit6, branch |-> Some(Master)]),
                   Some([commit |-> <<>>, branch |-> Some(<<>>)]),
                   Some([commit |-> <<"A", "-">>, branch |-> Some(<<"@", "m">>)])}]

(***************************************************************************)
(* The version codec as a state machine: parse, format, parse again,       *)
(* format again.                                                           *)
(***************************************************************************)
SchemaIdle == file = None /\ info = None /\ out = None /\ info2 = None

Init ==
    /\ \/ origin = "parse" /\ val \in Inputs
       \/ origin = "direct" /\ val = <<>>
    /\ res = None /\ v = None /\ text = None /\ res2 = None /\ text2 = None
    /\ SchemaIdle

\* KitVersion::try_from(val)
TryFrom ==
    /\ origin = "parse" /\ res = None
    /\ res' = Some(try_from(val))
    /\ v' = try_from(val).value
    /\ UNCHANGED <<val, origin, text, res2, text2, file, info, out, info2>>

\* KitVersion { epoch, major, ... } written out by a caller
Construct ==
    /\ origin = "direct" /\ v = None
    /\ \E k \in DirectValues : v' = Some(k)
    /\ UNCHANGED <<val, origin, res, text, res2, text2, file, info, out, info2>>

\* format!("{}", v)
Format ==
    /\ v # None /\ text = None
    /\ text' = Some(KitVersion_fmt(v[1]))
    /\ UNCHANGED <<val, origin, res, v, res2, text2, file, info, out, info2>>

\* KitVersion::try_from(&text)
Reparse ==
    /\ text # None /\ res2 = None
    /\ res2' = Some(try_from(text[1]))
    /\ UNCHANGED <<val, origin, res, v, text, text2, file, info, out, info2>>

\* format!("{}", reparsed)
Reformat ==
    /\ res2 # None /\ res2[1].ok /\ text2 = None
    /\ text2' = Some(KitVersion_fmt(res2[1].value[1]))
    /\ UNCHANGED <<val, origin, res, v, text, res2, file, info, out, info2>>

Next == TryFrom \/ Construct \/ Format \/ Reparse \/ Reformat

Spec == Init /\ [][Next]_vars

(***************************************************************************)
(* The bundle information schema.  A TOML document is modelled decoded: a  *)
(* table is the sequence of its <<key, value>> entries in document order   *)
(* (TOML allows no key twice), a value is a string, a boolean, an integer  *)
(* or a table.  The text of a file is the document it holds, or is not     *)
(* TOML at all.                                                            *)
(***************************************************************************)
StrV(x) == [kind |-> "string", str |-> x, bool |-> FALSE, int |-> 0, tab |-> <<>>]
BoolV(b) == [kind |-> "boolean", str |-> <<>>, bool |-> b, int |-> 0, tab |-> <<>>]
IntV(n) == [kind |-> "integer", str |-> <<>>, bool |-> FALSE, int |-> n, tab |-> <<>>]
TableV(t) == [kind |-> "table", str |-> <<>>, bool |-> FALSE, int |-> 0, tab |-> t]

Toml(root) == [syntax_ok |-> TRUE, root |-> root]
NotToml == [syntax_ok |-> FALSE, root |-> <<>>]

NoError == [kind |-> "", at |-> ""]
DeOk(x) == [ok |-> TRUE, value |-> Some(x), err |-> NoError]
DeErr(kind, at) == [ok |-> FALSE, value |-> None, err |-> [kind |-> kind, at |-> at]]

\* The fields of each struct, in declaration order.
StructFields(struct) ==
    CASE struct = "BundleInformationSchema" -> <<"bundle", "kit", "wifi">>
      [] struct = "bundle" -> <<"version">>
      [] struct = "kit" -> <<"name", "version">>
      [] struct = "wifi" -> <<"ssid", "psk", "enabled", "region">>

Range(f) == {f[i] : i \in 1..Len(f)}

\* Deserialize for KitVersion: deserialize_str, then KitVersionVisitor::visit_str.
KitVersion_deserialize(value) ==
    IF value.kind # "string" THEN DeErr("invalid type", "version")
    ELSE IF try_from(value.str).ok THEN DeOk(try_from(value.str).value[1])
    ELSE DeErr(try_from(value.str).err, "version")

String_deserialize(value, at) ==
    IF value.kind # "string" THEN DeErr("invalid type", at) ELSE DeOk(value.str)

bool_deserialize(value, at) ==
    IF value.kind # "boolean" THEN DeErr("invalid type", at) ELSE DeOk(value.bool)

\* The Deserialize of the type of field key of a section.
DeLeaf(struct, key, value) ==
    IF struct = "kit" /\ key = "version" THEN KitVersion_deserialize(value)
    ELSE IF struct = "wifi" /\ key = "enabled" THEN bool_deserialize(value, key)
    ELSE String_deserialize(value, key)

\* #[derive(Deserialize)] #[serde(deny_unknown_fields)]: the entries are taken
\* in document order, an unknown key or a value of the wrong type ends the
\* decoding at once, and the fields still missing are reported at the end,
\* the first in declaration order.  decoded[i] is what the Deserialize of the
\* field's type makes of the value of entry i.
RECURSIVE VisitMap(_, _, _, _, _)
VisitMap(struct, entries, decoded, i, got) ==
    IF i > Len(entries)
    THEN LET fields == StructFields(struct)
             missing == {j \in 1..Len(fields) : fields[j] \notin DOMAIN got}
         IN  IF missing # {}
             THEN DeErr("missing field",
                        fields[CHOOSE j \in missing : \A k \in missing : j <= k])
             ELSE DeOk(got)
    ELSE LET key == entries[i][1] IN
         IF key \notin Range(StructFields(struct)) THEN DeErr("unknown field", key)
         ELSE IF ~decoded[i].ok THEN decoded[i]
         ELSE VisitMap(struct, entries, decoded, i + 1, got @@ (key :> decoded[i].value[1]))

Sections == {"bundle", "kit", "wifi"}

\* Mutant: the sections lack deny_unknown_fields, so unknown keys are skipped.
DeSection_Mut(sec, value) ==
    IF sec \notin Sections THEN DeErr("unknown field", sec)
    ELSE IF value.kind # "table" THEN DeErr("invalid type", sec)
    ELSE LET known == SelectSeq(value.tab, LAMBDA e : e[1] \in Range(StructFields(sec)))
         IN  VisitMap(sec, known,
                      [i \in 1..Len(known) |-> DeLeaf(sec, known[i][1], known[i][2])],
                      1, <<>>)

\* Deserialize for BundleVersionSection, KitInformationSection, WiFiInformationSection
DeSection(sec, value) ==
    IF sec \notin Sections THEN DeErr("unknown field", sec)
    ELSE IF value.kind # "table" THEN DeErr("invalid type", sec)
    ELSE VisitMap(sec, value.tab,
                  [i \in 1..Len(value.tab) |-> DeLeaf(sec, value.tab[i][1], value.tab[i][2])],
                  1, <<>>)

\* toml::from_str::<BundleInformationSchema>(&contents)
from_str(contents) ==
    IF ~contents.syntax_ok THEN DeErr("syntax", "")
    ELSE VisitMap("BundleInformationSchema", contents.root,
                  [i \in 1..Len(contents.root) |->
                        DeSection(contents.root[i][1], contents.root[i][2])],
                  1, <<>>)

\* BundleInformationSchema::load(filename)
load(f) == IF f = None THEN DeErr("io", "") ELSE from_str(f[1])

\* Mutant: only the four numbers are serialized.
KitVersion_serialize_Mut(k) ==
    StrV(Dec(k.epoch) \o <<".">> \o Dec(k.major) \o <<".">> \o Dec(k.minor)
         \o <<".">> \o Dec(k.patch))

\* Serialize for KitVersion: the Display string, as one string.
KitVersion_serialize(k) == StrV(KitVersion_fmt(k))

\* BundleInformationSchema::to_string: #[derive(Serialize)] writes the fields in
\* declaration order.
to_string(x) ==
    Toml(<< <<"bundle", TableV(<< <<"version", StrV(x.bundle.version)>> >>)>>,
            <<"kit", TableV(<< <<"name", StrV(x.kit.name)>>,
                               <<"version", KitVersion_serialize(x.kit.version)>> >>)>>,
            <<"wifi", TableV(<< <<"ssid", StrV(x.wifi.ssid)>>,
                                <<"psk", StrV(x.wifi.psk)>>,
                                <<"enabled", BoolV(x.wifi.enabled)>>,
                                <<"region", StrV(x.wifi.region)>> >>)>> >>)

(***************************************************************************)
(* The documents.  A complete document, in any order of its keys, and the  *)
(* example document with up to MaxDefects defects: a key added, a key      *)
(* removed, a value of another type, a version string that does not parse. *)
(***************************************************************************)
MaxDefects == 2

Document(bv, name, version, ssid, enabled) ==
    << <<"bundle", TableV(<< <<"version", StrV(bv)>> >>)>>,
       <<"kit", TableV(<< <<"name", StrV(name)>>, <<"version", StrV(version)>> >>)>>,
       <<"wifi", TableV(<< <<"ssid", StrV(ssid)>>,
                           <<"psk", StrV(<<"b", "e", "e", "s">>)>>,
                           <<"enabled", BoolV(enabled)>>,
                           <<"region", StrV(<<"G", "B">>)>> >>)>> >>

Reverse(t) == [i \in 1..Len(t) |-> t[Len(t) + 1 - i]]

\* The same document with its sections and their keys in the opposite order.
Reordered(root) ==
    Reverse([i \in 1..Len(root) |-> <<root[i][1], TableV(Reverse(root[i][2].tab))>>])

V2022 == <<"2", "0", "2", "2", ".", "1", ".", "4", ".", "0">>

VersionStrs ==
    {V2022, MasterExample,
     Join(<<"2", "0", "2", "1">>, <<"0", "0">>, <<"0">>, <<"0", "1">>, Dev, <<":">> \o Commit5),
     Join(<<"6", "5", "5", "3", "6">>, <<"0">>, <<"0">>, <<"1">>, <<>>, <<>>),
     <<"2", "0", "2", "1", ".", "0", ".", "0">>,
     <<>>}

Example ==
    Document(<<"2", ".", "0", ".", "0">>, <<"S", "R">>, V2022, <<"r", "o", "b", "o", "t">>, TRUE)

Complete ==
    LET docs == {Document(bv, <<"S", "R">>, version, ssid, enabled) :
                    bv \in {<<"2", ".", "0", ".", "0">>, <<>>}, version \in VersionStrs,
                    ssid \in {<<"r", "o", "b", "o", "t">>, V2022}, enabled \in BOOLEAN}
    IN  docs \cup {Reordered(d) : d \in docs}

HasKey(t, k) == \E i \in 1..Len(t) : t[i][1] = k
Get(t, k) == t[CHOOSE i \in 1..Len(t) : t[i][1] = k][2]
InsertEntry(t, i, e) == SubSeq(t, 1, i - 1) \o <<e>> \o SubSeq(t, i, Len(t))
RemoveKey(t, k) == SelectSeq(t, LAMBDA e : e[1] # k)
SetKey(t, k, x) == [i \in 1..Len(t) |-> IF t[i][1] = k THEN <<k, x>> ELSE t[i]]

\* The entries of section sec of root; none when it is absent or no table.
Section(root, sec) == IF HasKey(root, sec) THEN Get(root, sec).tab ELSE <<>>

IsSection(root, sec) == HasKey(root, sec) /\ Get(root, sec).kind = "table"

Extra == <<"extra", StrV(<<"x">>)>>
ExtraTable == <<"extra", TableV(<<Extra>>)>>

\* Values of the types that x is not of.
OtherTypes(x) ==
    {y \in {StrV(<<"t", "r", "u", "e">>), BoolV(TRUE), IntV(1)} : y.kind # x.kind}

\* Every document that is root with one defect.
Defects(root) ==
    {InsertEntry(root, 1, Extra), InsertEntry(root, Len(root) + 1, ExtraTable)}
    \cup UNION {{SetKey(root, sec, TableV(InsertEntry(Section(root, sec), i, Extra))) :
                    i \in {1, Len(Section(root, sec)) + 1}} :
                sec \in {x \in Sections : IsSection(root, x)}}
    \cup {RemoveKey(root, sec) : sec \in Sections}
    \cup UNION {{SetKey(root, sec, TableV(RemoveKey(Section(root, sec), k))) :
                    k \in Range(StructFields(sec))} :
                sec \in {x \in Sections : IsSection(root, x)}}
    \cup {SetKey(root, sec, StrV(<<"x">>)) : sec \in Sections}
    \cup UNION {UNION {{SetKey(root, sec, TableV(SetKey(Section(root, sec), k, y))) :
                            y \in OtherTypes(Get(Section(root, sec), k))} :
                        k \in {z \in Range(StructFields(sec)) : HasKey(Section(root, sec), z)}} :
                sec \in {x \in Sections : IsSection(root, x)}}
    \cup {SetKey(root, "kit", TableV(SetKey(Section(root, "kit"), "version", StrV(bad)))) :
            bad \in IF IsSection(root, "kit")
                    THEN {<<"2", "0", "2", "1", ".", "0", ".", "0">>} ELSE {}}

RECURSIVE Defective(_, _)
Defective(roots, n) ==
    IF n = 0 THEN roots
    ELSE Defective(roots \cup UNION {Defects(r) : r \in roots}, n - 1)

Files ==
    {None, Some(NotToml)}
    \cup {Some(Toml(r)) : r \in Complete \cup Defective({Example}, MaxDefects)}

CodecIdle ==
    /\ val = <<>> /\ origin = "schema" /\ res = None /\ v = None
    /\ text = None /\ res2 = None /\ text2 = None

SchemaInit ==
    /\ file \in Files
    /\ info = None /\ out = None /\ info2 = None
    /\ CodecIdle

\* BundleInformationSchema::load(filename)
Load ==
    /\ origin = "schema" /\ info = None
    /\ info' = Some(load(file))
    /\ UNCHANGED <<val, origin, res, v, text, res2, text2, file, out, info2>>

\* info.to_string()
Serialize ==
    /\ info # None /\ info[1].ok /\ out = None
    /\ out' = Some(to_string(info[1].value[1]))
    /\ UNCHANGED <<val, origin, res, v, text, res2, text2, file, info, info2>>

\* toml::from_str(&info.to_string())
Reload ==
    /\ out # None /\ info2 = None
    /\ info2' = Some(from_str(out[1]))
    /\ UNCHANGED <<val, origin, res, v, text, res2, text2, file, info, out>>

SchemaNext == Load \/ Serialize \/ Reload

SchemaSpec == SchemaInit /\ [][SchemaNext]_vars

(***************************************************************************)
(* The grammar as the specification words it,                              *)
(*     <epoch>.<major>.<minor>.<patch>[dev][:<commit>[@<branch>]]          *)
(* stated by splitting the string at its separators: the build metadata    *)
(* is what follows the first ':', the branch what follows the first '@'    *)
(* of the metadata, and the numbers are the '.'-separated fields of the    *)
(* rest, less a final dev.  A decimal digit is one of 0 to 9.              *)
(***************************************************************************)
RECURSIVE FirstPos(_, _, _)
FirstPos(s, c, i) ==
    IF i > Len(s) \/ s[i] = c THEN i ELSE FirstPos(s, c, i + 1)

AllIn(s, C) == \A i \in 1..Len(s) : s[i] \in C

HasBuild(s) == FirstPos(s, ":", 1) <= Len(s)
VersionPart(s) == SubSeq(s, 1, FirstPos(s, ":", 1) - 1)
BuildPart(s) == SubSeq(s, FirstPos(s, ":", 1) + 1, Len(s))
CommitPart(s) == SubSeq(BuildPart(s), 1, FirstPos(BuildPart(s), "@", 1) - 1)
HasBranch(s) == HasBuild(s) /\ FirstPos(BuildPart(s), "@", 1) <= Len(BuildPart(s))
BranchPart(s) == SubSeq(BuildPart(s), FirstPos(BuildPart(s), "@", 1) + 1, Len(BuildPart(s)))

HasDev(s) == Len(VersionPart(s)) >= 3 /\ SubSeq(VersionPart(s), Len(VersionPart(s)) - 2, Len(VersionPart(s))) = Dev
Numbers(s) == IF HasDev(s) THEN SubSeq(VersionPart(s), 1, Len(VersionPart(s)) - 3) ELSE VersionPart(s)

RECURSIVE Split(_)
Split(s) ==
    LET d == FirstPos(s, ".", 1) IN
    IF d > Len(s) THEN <<s>>
    ELSE <<SubSeq(s, 1, d - 1)>> \o Split(SubSeq(s, d + 1, Len(s)))

Fields(s) == Split(Numbers(s))

IsNumber(ds) == Len(ds) >= 1 /\ AllIn(ds, AsciiDigit)

GoodCommit(c) == Len(c) \in 5..40 /\ AllIn(c, ReHex)

NumbersInGrammar(s) == Len(Fields(s)) = 4 /\ \A i \in 1..4 : IsNumber(Fields(s)[i])

InGrammar(s) ==
    /\ NumbersInGrammar(s)
    /\ HasBuild(s) => GoodCommit(CommitPart(s))
    /\ HasBranch(s) => Len(BranchPart(s)) >= 1 /\ AllIn(BranchPart(s), ReWord)

RECURSIVE Value(_)
Value(ds) ==
    IF Len(ds) = 0 THEN 0
    ELSE 10 * Value(SubSeq(ds, 1, Len(ds) - 1)) + DigitVal(ds[Len(ds)])

Width(i) == IF i = 1 THEN 2 ^ 16 ELSE 2 ^ 8

Fits(s, i) == Value(Fields(s)[i]) < Width(i)
InRange(s) == \A i \in 1..4 : Fits(s, i)

\* The value the specification gives a string of the grammar.
Meaning(s) ==
    [epoch |-> Value(Fields(s)[1]),
     major |-> Value(Fields(s)[2]),
     minor |-> Value(Fields(s)[3]),
     patch |-> Value(Fields(s)[4]),
     dev |-> HasDev(s),
     build_info |->
        IF ~HasBuild(s) THEN None
        ELSE Some([commit |-> CommitPart(s),
                   branch |-> IF HasBranch(s) THEN Some(BranchPart(s)) ELSE None])]

Parsed == origin = "parse" /\ res # None
Accepted == Parsed /\ res[1].ok

\* C1: a value that try_from returned, formatted and parsed again, parses
\* successfully to an equal value.
C1_RoundTrip ==
    (Accepted /\ res2 # None) => (res2[1].ok /\ res2[1].value = v /\ res2[1] = res[1])

\* A dev version with commit and branch, written with a leading zero, has gone round.
C1_Witness ==
    /\ Accepted /\ res2 # None
    /\ v[1].dev /\ v[1].build_info # None /\ v[1].build_info[1].branch # None
    /\ text[1] # val

\* C2: every string of the grammar whose numbers fit their widths is accepted,
\* and the value has the numbers' decimal values, dev exactly when the suffix
\* is there, and exactly the commit and branch written.
C2_AcceptsGrammar ==
    (Parsed /\ InGrammar(val) /\ InRange(val)) => res[1] = Ok(Meaning(val))

Table ==
    {Join(<<"2", "0", "2", "1">>, <<"0">>, <<"0">>, <<"1">>, d, b) :
        d \in {<<>>, Dev},
        b \in {<<>>, <<":">> \o Commit6, <<":">> \o Commit6 \o <<"@">> \o Master}}

\* "2021.0.0.1dev:123456@master" of the acceptance table has been parsed.
C2_Witness ==
    /\ Parsed /\ val \in Table /\ HasDev(val) /\ HasBranch(val)
    /\ res[1].ok /\ res[1].value[1].epoch = 2021 /\ res[1].value[1].patch = 1

Errors == {ErrFormat, ErrEpoch, ErrMajor, ErrMinor, ErrPatch}
ComponentError(i) == <<ErrEpoch, ErrMajor, ErrMinor, ErrPatch>>[i]

\* C3: try_from returns a KitVersion or one of five errors; the format error
\* exactly when the string is not of the grammar, a component's error exactly
\* when the string is of the grammar and a component does not fit its width
\* (and then that component does not fit); an accepted value holds the
\* numbers written, never a wrapped one.
C3_ErrorKinds ==
    Parsed =>
        LET r == res[1] IN
        /\ r.ok \/ r.err \in Errors
        /\ r.err = ErrFormat <=> ~InGrammar(val)
        /\ (~r.ok /\ r.err # ErrFormat) <=> (InGrammar(val) /\ ~InRange(val))
        /\ \A i \in 1..4 : r.err = ComponentError(i) => (InGrammar(val) /\ ~Fits(val, i))
        /\ r.ok => (InGrammar(val) /\ InRange(val) /\ r.value[1] = Meaning(val))

\* The format operation as the specification words it.
FormatOf(k) ==
    Dec(k.epoch) \o <<".">> \o Dec(k.major) \o <<".">> \o Dec(k.minor) \o <<".">>
    \o Dec(k.patch)
    \o (IF k.dev THEN Dev ELSE <<>>)
    \o (IF k.build_info = None THEN <<>>
        ELSE <<":">> \o k.build_info[1].commit
             \o (IF k.build_info[1].branch = None THEN <<>>
                 ELSE <<"@">> \o k.build_info[1].branch[1]))

Canonical(ds) == IsNumber(ds) /\ (Len(ds) = 1 \/ ds[1] # "0")

\* C4: the format of any KitVersion, parsed or built field by field, is its four
\* numbers in decimal joined by dots, then dev iff the flag is set, then
\* ':' commit iff build_info is present, then '@' branch iff the branch is.
C4_Format ==
    text # None =>
        /\ text[1] = FormatOf(v[1])
        /\ \A n \in {v[1].epoch, v[1].major, v[1].minor, v[1].patch} :
                Canonical(Dec(n)) /\ Value(Dec(n)) = n

\* A value built field by field, with dev, commit and branch, has been formatted.
C4_Witness ==
    /\ origin = "direct" /\ text # None
    /\ v[1].dev /\ v[1].build_info # None /\ v[1].build_info[1].branch # None
    /\ v[1].epoch = U16Max

\* C7: with a ':' in the string, a commit (the text between the ':' and the '@'
\* or the end) that is not 5 to 40 lower-case hex characters gives the format
\* error; a commit that is, is accepted whenever the rest of the string is
\* good, and is stored whole.
C7_Commit ==
    (Parsed /\ HasBuild(val)) =>
        IF GoodCommit(CommitPart(val))
        THEN /\ res[1].ok =>
                    /\ v[1].build_info # None
                    /\ v[1].build_info[1].commit = CommitPart(val)
             /\ (InGrammar(val) /\ InRange(val)) => res[1].ok
        ELSE res[1] = Err(ErrFormat)

\* A commit of 41 hex characters after good numbers has been refused.
C7_Witness ==
    /\ Parsed /\ HasBuild(val)
    /\ Len(CommitPart(val)) = MaxCommitLen + 1 /\ AllIn(CommitPart(val), ReHex)
    /\ NumbersInGrammar(val) /\ InRange(val) /\ ~HasBranch(val)
    /\ res[1] = Err(ErrFormat)

\* C8: an accepted string has build_info iff it has a ':<commit>' part, and a
\* branch iff it has an '@<branch>' part after the commit; the captures never
\* hold a branch without a commit, and that case gives no build_info.
C8_BuildInfo ==
    /\ Accepted =>
        /\ v[1].build_info # None <=> HasBuild(val)
        /\ v[1].build_info # None => GoodCommit(v[1].build_info[1].commit)
        /\ (v[1].build_info # None /\ v[1].build_info[1].branch # None) <=> HasBranch(val)
        /\ HasBranch(val) => v[1].build_info[1].branch = Some(BranchPart(val))
        /\ val = MasterExample =>
                v[1].build_info = Some([commit |-> Commit6, branch |-> Some(Master)])
    /\ Parsed =>
        /\ RE_captures(val) # None =>
                ~(RE_captures(val)[1].g6 = None /\ RE_captures(val)[1].g7 # None)
        /\ \A b \in Branches : build_info_of(None, Some(b)) = None
        /\ ("@" \in {val[i] : i \in 1..Len(val)} /\ ~HasBuild(val)) => ~res[1].ok

\* "2021.0.0.1:123456@master" has been parsed.
C8_Witness == Accepted /\ val = MasterExample /\ v[1].build_info # None

FirstUnfit(s) == CHOOSE i \in 1..4 : ~Fits(s, i) /\ \A j \in 1..(i - 1) : Fits(s, j)

\* A number of the string that is written in digits and does not fit its width.
HasUnfitNumber(s) ==
    \E i \in 1..Min(4, Len(Fields(s))) : IsNumber(Fields(s)[i]) /\ ~Fits(s, i)

\* C9: a string that has a number out of range and is outside the grammar
\* gives the format error; a string of the grammar with numbers out of range
\* gives the error of the leftmost such number.
C9_Precedence ==
    Parsed =>
        /\ (~InGrammar(val) /\ HasUnfitNumber(val)) => res[1] = Err(ErrFormat)
        /\ (InGrammar(val) /\ ~InRange(val)) =>
                res[1] = Err(ComponentError(FirstUnfit(val)))

RECURSIVE Strip(_)
Strip(ds) == IF Len(ds) > 1 /\ ds[1] = "0" THEN Strip(SubSeq(ds, 2, Len(ds))) ELSE ds

NoLeadingZero(s) == \A i \in 1..4 : Canonical(Fields(s)[i])

Normalised(s) ==
    Join(Strip(Fields(s)[1]), Strip(Fields(s)[2]), Strip(Fields(s)[3]),
         Strip(Fields(s)[4]), <<>>, SubSeq(s, Len(Numbers(s)) + 1, Len(s)))

\* C10: for an accepted string, format(parse(s)) is s with the leading zeros of
\* its numbers removed, so it is s exactly when no number has a leading zero;
\* formatting the parse of that again changes nothing.
C10_Normalise ==
    (Accepted /\ text # None) =>
        /\ InGrammar(val)
        /\ text[1] = Normalised(val)
        /\ text[1] = val <=> NoLeadingZero(val)
        /\ res2 # None => (res2[1].ok /\ res2[1].value = v)
        /\ text2 # None => text2 = text

\* A string with leading zeros in two numbers was accepted, and it and its
\* format, two distinct strings, parse to equal values.
C10_Witness ==
    /\ Accepted /\ text2 # None
    /\ Cardinality({i \in 1..4 : ~Canonical(Fields(val)[i])}) = 2
    /\ text[1] # val /\ res2[1].ok /\ res2[1].value = v /\ text2 = text

(***************************************************************************)
(* The schema as the specification tables it.                              *)
(***************************************************************************)
Keys(t) == {t[i][1] : i \in 1..Len(t)}

LeafKind(sec, key) == IF sec = "wifi" /\ key = "enabled" THEN "boolean" ELSE "string"

RequiredFields ==
    {<<"bundle", "version">>, <<"kit", "name">>, <<"kit", "version">>, <<"wifi", "ssid">>,
     <<"wifi", "psk">>, <<"wifi", "enabled">>, <<"wifi", "region">>}

FieldsOf(sec) == {f[2] : f \in {g \in RequiredFields : g[1] = sec}}

\* root has exactly the required fields less those of drop, each present one of
\* its listed type, and a kit.version, when present, that try_from accepts.
Shape(root, drop) ==
    /\ Keys(root) = Sections
    /\ \A sec \in Sections :
        /\ Get(root, sec).kind = "table"
        /\ Keys(Section(root, sec)) = {k \in FieldsOf(sec) : <<sec, k>> \notin drop}
        /\ \A k \in Keys(Section(root, sec)) :
                Get(Section(root, sec), k).kind = LeafKind(sec, k)
    /\ HasKey(Section(root, "kit"), "version") =>
            try_from(Get(Section(root, "kit"), "version").str).ok

Conforms(root) == Shape(root, {})

RemoveAt(t, i) == SubSeq(t, 1, i - 1) \o SubSeq(t, i + 1, Len(t))

\* The keys k such that root is a conforming document plus the one entry k,
\* at the top level or inside a section.
OneUnknown(root) ==
    {root[i][1] : i \in {j \in 1..Len(root) :
                            root[j][1] \notin Sections /\ Conforms(RemoveAt(root, j))}}
    \cup UNION {
        {Section(root, sec)[i][1] :
            i \in {j \in 1..Len(Section(root, sec)) :
                    /\ Section(root, sec)[j][1] \notin FieldsOf(sec)
                    /\ Conforms(SetKey(root, sec, TableV(RemoveAt(Section(root, sec), j))))}} :
        sec \in {x \in Sections : IsSection(root, x)}}

\* The required fields f such that root is a conforming document less f.
OneMissing(root) == {f \in RequiredFields : Shape(root, {f})}

\* root is a conforming document but for wifi.enabled, given as a string.
EnabledAsString(root) ==
    /\ IsSection(root, "wifi") /\ HasKey(Section(root, "wifi"), "enabled")
    /\ Get(Section(root, "wifi"), "enabled").kind = "string"
    /\ Conforms(SetKey(root, "wifi",
                       TableV(SetKey(Section(root, "wifi"), "enabled", BoolV(TRUE)))))

Loaded == origin = "schema" /\ info # None
Readable == file # None /\ file[1].syntax_ok

\* C5: decoding succeeds exactly when the document has the required fields and
\* no other, each of its type, with a version try_from accepts; one unexpected
\* field anywhere gives unknown field, one missing field gives missing field,
\* wifi.enabled as a string gives invalid type; a failure yields no value.
C5_ClosedSchema ==
    Loaded =>
        /\ info[1].ok <=> (Readable /\ Conforms(file[1].root))
        /\ ~info[1].ok => info[1].value = None
        /\ Readable =>
            /\ \A k \in OneUnknown(file[1].root) : info[1] = DeErr("unknown field", k)
            /\ \A f \in OneMissing(file[1].root) : info[1] = DeErr("missing field", f[2])
            /\ EnabledAsString(file[1].root) => info[1] = DeErr("invalid type", "enabled")

\* A document with one unexpected key inside a section was refused.
C5_Witness ==
    /\ Loaded /\ Readable
    /\ Keys(file[1].root) = Sections /\ OneUnknown(file[1].root) # {}
    /\ info[1].err.kind = "unknown field"

Written(sec, key) == Get(Section(file[1].root, sec), key)

\* C6: a loaded value has the fields written in the document, the version's
\* numbers, dev flag and build metadata being those of the version string;
\* serialized and decoded again it gives an equal value.
C6_RoundTrip ==
    (Loaded /\ info[1].ok) =>
        LET x == info[1].value[1] IN
        /\ x.bundle.version = Written("bundle", "version").str
        /\ x.kit.name = Written("kit", "name").str
        /\ InGrammar(Written("kit", "version").str)
        /\ x.kit.version = Meaning(Written("kit", "version").str)
        /\ x.wifi.ssid = Written("wifi", "ssid").str
        /\ x.wifi.psk = Written("wifi", "psk").str
        /\ x.wifi.enabled = Written("wifi", "enabled").bool
        /\ x.wifi.region = Written("wifi", "region").str
        /\ Written("kit", "version").str = V2022 =>
                x.kit.version = [epoch |-> 2022, major |-> 1, minor |-> 4, patch |-> 0,
                                 dev |-> FALSE, build_info |-> None]
        /\ out # None => Get(Section(out[1].root, "kit"), "version").kind = "string"
        /\ info2 # None => (info2[1].ok /\ info2[1].value = info[1].value)

\* A document whose version has leading zeros, dev and a commit was loaded,
\* serialized to another document and loaded again.
C6_Witness ==
    /\ Loaded /\ info[1].ok /\ info2 # None /\ info2[1].ok
    /\ out # file
    /\ info[1].value[1].kit.version.dev
    /\ info[1].value[1].kit.version.build_info # None
    /\ ~NoLeadingZero(Written("kit", "version").str)

====
